---- MODULE Spec2Model ----
(***************************************************************************)
(* Model of src/app.py: a Slack bot whose handlers acknowledge an event,   *)
(* call the payment processor (Stripe) and report the result in the chat.  *)
(*                                                                         *)
(* One event is handled at a time and a handler runs to completion.  Each  *)
(* call a handler makes to the outside (ack, respond, chat_postMessage,    *)
(* views_open, stripe.Charge.retrieve, stripe.Refund.create) is one step   *)
(* and is appended to `log`, the calls issued for the event in hand.       *)
(* A call to the outside may raise; the exception then travels as Python   *)
(* makes it travel: to the matching except clause when the call is inside  *)
(* the try block, out of the handler otherwise.                            *)
(*                                                                         *)
(* Text is a sequence of one-character strings.                            *)
(***************************************************************************)
EXTENDS Integers, Sequences, FiniteSets, TLC

VARIABLES
    pc,         \* position of the running handler; "idle" when none runs
    handler,    \* name of the handler that runs or has last run
    event,      \* payload of the event in hand (command / body+view)
    charge_id,  \* refund_command's local charge_id
    fields,     \* handle_refund_submission's locals read from the view
    refund,     \* the object stripe.Refund.create returned, when it returned
    exc,        \* the exception caught by an except clause of the handler
    escaped,    \* TRUE when an exception left the handler
    log,        \* calls issued for the event in hand, in order
    announced   \* channel-wide announcements posted so far (all events)

vars == <<pc, handler, event, charge_id, fields, refund, exc, escaped, log, announced>>

----------------------------------------------------------------------------
(* Bounds and input sets *)

MaxTextLen == 4
MaxAmountLen == 2

Whitespace == {" "}
Digits == {"0", "2"}
TextChars == {"c", "h", "_", " "}
AmountChars == {"0", "2", "-", "x", " "}

SeqsUpTo(S, n) == UNION {[1..k -> S] : k \in 0..n}

CommandTexts == SeqsUpTo(TextChars, MaxTextLen)
\* Python's None where a text is expected
NoneText == <<"None">>
\* what the amount field may hold: any short text, or no value at all
AmountInputs == SeqsUpTo(AmountChars, MaxAmountLen) \cup {NoneText}

Users == {"U1", "U2"}
Channels == {"C1"}
NoChannel == "None"
PaymentIntents == {"pi_1", "pi_2"}
Reasons == {"duplicate", "fraud"}

\* phrases str(e) of a raised exception is made of
ErrorMessages ==
    { <<"other">>, <<"No such charge">>, <<"already been refunded">>,
      <<"No such charge", "already been refunded">>,
      <<"already been refunded", "No such charge">> }
\* stripe.error.InvalidRequestError is a subclass of stripe.error.StripeError;
\* "StripeError" stands for every processor error that is no invalid request
StripeErrorClasses == {"InvalidRequestError", "StripeError"}
ExceptionClasses == StripeErrorClasses \cup {"Exception"}
Exceptions == [cls : ExceptionClasses, msg : ErrorMessages]
NoException == [cls |-> "none", msg |-> <<>>]
\* what a failing Slack call raises (no stripe error)
SlackError == [cls |-> "Exception", msg |-> <<"other">>]
ValueError == [cls |-> "Exception", msg |-> <<"other">>]

StatusNone == "None"
RefundStatuses == {"succeeded", "pending", StatusNone}
RefundAmounts == {1999, 2500}
Refunds == [id : {"re_1"}, amount : RefundAmounts, currency : {"usd"},
            status : RefundStatuses]
NoRefund == [id |-> "none", amount |-> 0, currency |-> "none", status |-> StatusNone]

----------------------------------------------------------------------------
(* Python string operations used by the handlers *)

RECURSIVE lstrip(_)
lstrip(s) == IF s # <<>> /\ Head(s) \in Whitespace THEN lstrip(Tail(s)) ELSE s

RECURSIVE rstrip(_)
rstrip(s) ==
    IF s # <<>> /\ s[Len(s)] \in Whitespace THEN rstrip(SubSeq(s, 1, Len(s) - 1)) ELSE s

strip(s) == rstrip(lstrip(s))

\* variant: only "ch" of the prefix is compared
startswith_two_chars(s, prefix) ==
    /\ Len(s) >= Len(prefix) - 1
    /\ SubSeq(s, 1, Len(prefix) - 1) = SubSeq(prefix, 1, Len(prefix) - 1)

startswith(s, prefix) ==
    /\ Len(s) >= Len(prefix)
    /\ SubSeq(s, 1, Len(prefix)) = prefix

\* `phrase in error_msg`
Contains(error_msg, phrase) == \E i \in 1..Len(error_msg) : error_msg[i] = phrase

DigitValue(d) == IF d = "2" THEN 2 ELSE 0

RECURSIVE DecimalValue(_)
DecimalValue(ds) ==
    IF ds = <<>> THEN 0
    ELSE 10 * DecimalValue(SubSeq(ds, 1, Len(ds) - 1)) + DigitValue(ds[Len(ds)])

\* int(amount): surrounding whitespace is dropped, one sign is allowed, the
\* rest must be one or more digits; None is a TypeError, anything else a
\* ValueError.  The result says whether int() returned and what.
int(amount) ==
    IF amount = NoneText THEN [ok |-> FALSE, val |-> 0]
    ELSE LET t == strip(amount)
             signed == t # <<>> /\ Head(t) \in {"-", "+"}
             ds == IF signed THEN Tail(t) ELSE t
         IN IF ds # <<>> /\ \A i \in 1..Len(ds) : ds[i] \in Digits
            THEN [ok |-> TRUE,
                  val |-> IF signed /\ Head(t) = "-" THEN 0 - DecimalValue(ds)
                          ELSE DecimalValue(ds)]
            ELSE [ok |-> FALSE, val |-> 0]

\* f"${refund.amount / 100:.2f}" as <<dollars, cents>>
FormatAmount(amount) == <<amount \div 100, amount % 100>>

upper(s) ==
    CASE s = "usd" -> "USD"
      [] s = "succeeded" -> "SUCCEEDED"
      [] s = "pending" -> "PENDING"
      [] OTHER -> s

title(s) ==
    CASE s = "succeeded" -> "Succeeded"
      [] s = "pending" -> "Pending"
      [] OTHER -> s

----------------------------------------------------------------------------
(* Calls to the outside, as recorded in log *)

AckCall == [op |-> "ack"]

\* respond(...): a message through the command's response_url
RespondCall(response_type, replace_original, body, raised) ==
    [op |-> "respond", response_type |-> response_type,
     replace_original |-> replace_original, body |-> body, raised |-> raised]

\* client.chat_postMessage(channel=..., ...)
PostCall(channel, body, raised) ==
    [op |-> "chat_postMessage", channel |-> channel, body |-> body, raised |-> raised]

\* client.views_open(view={callback_id: ...})
ViewsOpenCall(callback_id, raised) ==
    [op |-> "views_open", callback_id |-> callback_id, raised |-> raised]

\* stripe.Charge.retrieve / stripe.Refund.create
StripeCall(api, params, raised) ==
    [op |-> "stripe", api |-> api, params |-> params, raised |-> raised]

\* a message posted to a channel, which all its members see
IsAnnouncement(c) == c.op = "chat_postMessage" /\ c.channel \in Channels

Unset ==
    /\ charge_id' = <<>>
    /\ fields' = [payment_intent_id |-> "none", amount |-> NoneText, reason |-> "none"]
    /\ refund' = NoRefund
    /\ exc' = NoException
    /\ escaped' = FALSE
    /\ log' = <<>>

\* The handler has finished and the event with all the handler's locals is
\* discarded; nothing of it is kept for the next event.  What stays is in the
\* chat: `announced` is the announcement the channel shows from the event just
\* handled, with the requester, the refunded amount and the submitted values it
\* was posted for.
listener_done ==
    /\ pc = "done"
    /\ pc' = "idle"
    /\ handler' = "none"
    /\ event' = [kind |-> "none"]
    /\ Unset
    /\ announced' =
        LET posted == {i \in 1..Len(log) : IsAnnouncement(log[i])}
        IN IF posted = {} THEN announced
           ELSE {[user |-> event.user, amount |-> refund.amount,
                  reason |-> fields.reason,
                  payment_intent |-> fields.payment_intent_id,
                  body |-> log[i].body] : i \in posted}

\* variant: the handler forgets ack()
Start_without_ack(h, e, next) ==
    /\ handler' = h
    /\ event' = e
    /\ pc' = next
    /\ log' = <<>>
    /\ UNCHANGED <<charge_id, fields, refund, exc, escaped, announced>>

\* a handler starts on an event; its first statement is ack()
Start(h, e, next) ==
    /\ handler' = h
    /\ event' = e
    /\ pc' = next
    /\ log' = <<AckCall>>
    /\ UNCHANGED <<charge_id, fields, refund, exc, escaped, announced>>

\* the handler returns normally
Return == pc' = "done" /\ escaped' = FALSE

\* an exception leaves the handler
Escape == pc' = "done" /\ escaped' = TRUE

Init ==
    /\ pc = "idle"
    /\ handler = "none"
    /\ event = [kind |-> "none"]
    /\ charge_id = <<>>
    /\ fields = [payment_intent_id |-> "none", amount |-> NoneText, reason |-> "none"]
    /\ refund = NoRefund
    /\ exc = NoException
    /\ escaped = FALSE
    /\ log = <<>>
    /\ announced = {}

----------------------------------------------------------------------------
(* message "hello" *)

message_hello ==
    /\ pc = "idle"
    /\ \E u \in Users, raised \in BOOLEAN :
          /\ handler' = "message_hello"
          /\ event' = [kind |-> "message", user |-> u]
          /\ log' = <<[op |-> "say", body |-> [tmpl |-> "Hello", user |-> u],
                       raised |-> raised]>>
          /\ IF raised THEN Escape ELSE Return
    /\ UNCHANGED <<charge_id, fields, refund, exc, announced>>

----------------------------------------------------------------------------
(* /support *)

support_command_ack ==
    /\ pc = "idle"
    /\ \E u \in Users, c \in Channels :
        Start("support_command",
              [kind |-> "command", user_id |-> u, channel_id |-> c, text |-> <<>>],
              "sc_respond")

\* respond(blocks=blocks): no response_type is given, which Slack shows to the
\* requester only
support_command_respond ==
    /\ pc = "sc_respond"
    /\ \E raised \in BOOLEAN :
          /\ log' = Append(log, RespondCall("ephemeral", FALSE,
                                   [tmpl |-> "SupportMenu",
                                    actions |-> <<"ask_question_btn", "request_refund_btn">>],
                                   raised))
          /\ IF raised THEN Escape ELSE Return
    /\ UNCHANGED <<handler, event, charge_id, fields, refund, exc, announced>>

----------------------------------------------------------------------------
(* /refund <charge id> *)

ChargePrefix == <<"c", "h", "_">>

refund_command_ack ==
    /\ pc = "idle"
    /\ \E u \in Users, c \in Channels, t \in CommandTexts :
        Start("refund_command",
              [kind |-> "command", user_id |-> u, channel_id |-> c, text |-> t],
              "rc_validate")

\* lines 76-121: the two validations and the "Processing refund..." message,
\* all outside the try block
refund_command_validate ==
    /\ pc = "rc_validate"
    /\ LET cid == strip(event.text) IN
       /\ charge_id' = cid
       /\ \E raised \in BOOLEAN :
            IF cid = <<>> THEN
                /\ log' = Append(log, RespondCall("ephemeral", FALSE,
                                         [tmpl |-> "ProvideChargeId"], raised))
                /\ IF raised THEN Escape ELSE Return
            ELSE IF ~ startswith(cid, ChargePrefix) THEN
                /\ log' = Append(log, RespondCall("ephemeral", FALSE,
                                         [tmpl |-> "InvalidChargeIdFormat"], raised))
                /\ IF raised THEN Escape ELSE Return
            ELSE
                /\ log' = Append(log, RespondCall("in_channel", FALSE,
                                         [tmpl |-> "Processing"], raised))
                /\ IF raised THEN Escape
                   ELSE pc' = "rc_retrieve" /\ escaped' = FALSE
    /\ UNCHANGED <<handler, event, fields, refund, exc, announced>>

\* variant: a failed Charge.retrieve is swallowed and the refund is tried anyway
refund_command_retrieve_swallowed ==
    /\ pc = "rc_retrieve"
    /\ \E raised \in BOOLEAN :
          log' = Append(log, StripeCall("Charge.retrieve", [charge |-> charge_id], raised))
    /\ pc' = "rc_create"
    /\ UNCHANGED <<handler, event, charge_id, fields, refund, exc, escaped, announced>>

\* line 125, inside the try block
refund_command_retrieve ==
    /\ pc = "rc_retrieve"
    /\ \/ /\ log' = Append(log, StripeCall("Charge.retrieve",
                                    [charge |-> charge_id], FALSE))
          /\ pc' = "rc_create"
          /\ exc' = exc
       \/ \E e \in Exceptions :
          /\ log' = Append(log, StripeCall("Charge.retrieve",
                                    [charge |-> charge_id], TRUE))
          /\ pc' = "rc_except"
          /\ exc' = e
    /\ UNCHANGED <<handler, event, charge_id, fields, refund, escaped, announced>>

\* lines 128-135
refund_command_create ==
    /\ pc = "rc_create"
    /\ LET params == [charge |-> charge_id, reason |-> "requested_by_customer",
                      slack_user_id |-> event.user_id,
                      slack_channel_id |-> event.channel_id]
       IN \/ \E r \in Refunds :
             /\ log' = Append(log, StripeCall("Refund.create", params, FALSE))
             /\ refund' = r
             /\ pc' = "rc_receipt"
             /\ exc' = exc
          \/ \E e \in Exceptions :
             /\ log' = Append(log, StripeCall("Refund.create", params, TRUE))
             /\ refund' = refund
             /\ pc' = "rc_except"
             /\ exc' = e
    /\ UNCHANGED <<handler, event, charge_id, fields, escaped, announced>>

\* lines 138-198: the receipt is built from the refund (refund.status.upper()
\* raises when the processor reports no status) and sent with respond
refund_command_receipt ==
    /\ pc = "rc_receipt"
    /\ IF refund.status = StatusNone THEN
          /\ exc' = [cls |-> "Exception", msg |-> <<"other">>]
          /\ pc' = "rc_except"
          /\ UNCHANGED <<log, escaped>>
       ELSE \E raised \in BOOLEAN :
          /\ log' = Append(log, RespondCall("in_channel", TRUE,
                          [tmpl |-> "Receipt", refund_id |-> refund.id,
                           amount |-> FormatAmount(refund.amount),
                           currency |-> upper(refund.currency),
                           status |-> upper(refund.status),
                           charge |-> charge_id,
                           reason |-> "Requested by customer"], raised))
          /\ IF raised
             THEN exc' = SlackError /\ pc' = "rc_except" /\ escaped' = escaped
             ELSE exc' = exc /\ Return
    /\ UNCHANGED <<handler, event, charge_id, fields, refund, announced>>

\* variant: the two phrases are tested in the other order
InvalidRequestErrorText_reordered(error_msg, cid) ==
    IF Contains(error_msg, "already been refunded")
    THEN [tmpl |-> "AlreadyRefunded"]
    ELSE IF Contains(error_msg, "No such charge")
    THEN [tmpl |-> "NotFound", charge |-> cid]
    ELSE [tmpl |-> "InvalidRequest", detail |-> error_msg]

\* lines 201-207
InvalidRequestErrorText(error_msg, cid) ==
    IF Contains(error_msg, "No such charge")
    THEN [tmpl |-> "NotFound", charge |-> cid]
    ELSE IF Contains(error_msg, "already been refunded")
    THEN [tmpl |-> "AlreadyRefunded"]
    ELSE [tmpl |-> "InvalidRequest", detail |-> error_msg]

\* variant: the error replaces the placeholder with channel-wide visibility
RefundCommandErrorRespond_in_channel(body) ==
    /\ pc = "rc_except"
    /\ \E raised \in BOOLEAN :
          /\ log' = Append(log, RespondCall("in_channel", TRUE, body, raised))
          /\ IF raised THEN Escape ELSE Return
    /\ UNCHANGED <<handler, event, charge_id, fields, refund, exc, announced>>

\* the respond of an except clause of refund_command; an exception it raises
\* is raised outside the try block
RefundCommandErrorRespond(body) ==
    /\ pc = "rc_except"
    /\ \E raised \in BOOLEAN :
          /\ log' = Append(log, RespondCall("ephemeral", TRUE, body, raised))
          /\ IF raised THEN Escape ELSE Return
    /\ UNCHANGED <<handler, event, charge_id, fields, refund, exc, announced>>

\* lines 200-221
refund_command_except_InvalidRequestError ==
    /\ exc.cls = "InvalidRequestError"
    /\ RefundCommandErrorRespond(InvalidRequestErrorText(exc.msg, charge_id))

\* lines 223-236
refund_command_except_StripeError ==
    /\ exc.cls = "StripeError"
    /\ RefundCommandErrorRespond([tmpl |-> "StripeError", detail |-> exc.msg])

\* lines 238-251
refund_command_except_Exception ==
    /\ exc.cls = "Exception"
    /\ RefundCommandErrorRespond([tmpl |-> "InternalError", detail |-> exc.msg])


----------------------------------------------------------------------------
(* buttons of the /support menu and the question modal *)

Questions == {"q1", "q2"}

handle_ask_question_ack ==
    /\ pc = "idle"
    /\ \E u \in Users :
        Start("handle_ask_question", [kind |-> "action", user |-> u], "aq_open")

\* lines 259-296
handle_ask_question_open ==
    /\ pc = "aq_open"
    /\ \E raised \in BOOLEAN :
          /\ log' = Append(log, ViewsOpenCall("question_modal", raised))
          /\ IF raised THEN Escape ELSE Return
    /\ UNCHANGED <<handler, event, charge_id, fields, refund, exc, announced>>

handle_question_submission_ack ==
    /\ pc = "idle"
    /\ \E u \in Users :
        Start("handle_question_submission",
              [kind |-> "view_submission", user |-> u, channel |-> NoChannel],
              "qs_post")

\* lines 303-314: the chained lookups raise KeyError when the submitted view
\* lacks the block; nothing catches it
handle_question_submission_post ==
    /\ pc = "qs_post"
    /\ \/ /\ Escape
          /\ log' = log
       \/ \E q \in Questions, raised \in BOOLEAN :
          /\ log' = Append(log, PostCall(event.user,
                                   [tmpl |-> "ComingSoon", question |-> q], raised))
          /\ IF raised THEN Escape ELSE Return
    /\ UNCHANGED <<handler, event, charge_id, fields, refund, exc, announced>>

handle_refund_request_ack ==
    /\ pc = "idle"
    /\ \E u \in Users :
        Start("handle_refund_request", [kind |-> "action", user |-> u], "rr_open")

\* lines 322-391
handle_refund_request_open ==
    /\ pc = "rr_open"
    /\ \E raised \in BOOLEAN :
          /\ log' = Append(log, ViewsOpenCall("refund_modal", raised))
          /\ IF raised THEN Escape ELSE Return
    /\ UNCHANGED <<handler, event, charge_id, fields, refund, exc, announced>>

----------------------------------------------------------------------------
(* submission of the refund modal *)

handle_refund_submission_ack ==
    /\ pc = "idle"
    /\ \E u \in Users, c \in Channels \cup {NoChannel} :
          Start("handle_refund_submission",
                [kind |-> "view_submission", user |-> u, channel |-> c],
                "rs_read")

\* lines 398-401, outside the try block.  The view's values are drawn here,
\* where the handler reads them; a view without one of the blocks raises
\* KeyError.
handle_refund_submission_read ==
    /\ pc = "rs_read"
    /\ \/ /\ Escape
          /\ fields' = fields
       \/ \E p \in PaymentIntents, a \in AmountInputs, r \in Reasons :
          /\ fields' = [payment_intent_id |-> p, amount |-> a, reason |-> r]
          /\ pc' = "rs_create"
          /\ escaped' = FALSE
    /\ UNCHANGED <<handler, event, charge_id, refund, exc, log, announced>>

\* lines 405-413: int(amount) is evaluated before the call is made
handle_refund_submission_create ==
    /\ pc = "rs_create"
    /\ LET n == int(fields.amount)
           params == [payment_intent |-> fields.payment_intent_id,
                      amount |-> n.val, reason |-> "requested_by_customer",
                      slack_user_id |-> event.user,
                      metadata_reason |-> fields.reason]
       IN IF ~ n.ok THEN
             /\ exc' = ValueError
             /\ pc' = "rs_except"
             /\ UNCHANGED <<log, refund>>
          ELSE
             \/ \E r \in Refunds :
                /\ log' = Append(log, StripeCall("Refund.create", params, FALSE))
                /\ refund' = r
                /\ pc' = "rs_receipt"
                /\ exc' = exc
             \/ \E e \in Exceptions :
                /\ log' = Append(log, StripeCall("Refund.create", params, TRUE))
                /\ refund' = refund
                /\ pc' = "rs_except"
                /\ exc' = e
    /\ UNCHANGED <<handler, event, charge_id, fields, escaped, announced>>

\* lines 416-471: the receipt (refund.status.title() raises when the processor
\* reports no status) goes to the requester as a direct message
handle_refund_submission_receipt ==
    /\ pc = "rs_receipt"
    /\ IF refund.status = StatusNone THEN
          /\ exc' = [cls |-> "Exception", msg |-> <<"other">>]
          /\ pc' = "rs_except"
          /\ log' = log
       ELSE \E raised \in BOOLEAN :
          /\ log' = Append(log, PostCall(event.user,
                          [tmpl |-> "Receipt", refund_id |-> refund.id,
                           amount |-> FormatAmount(refund.amount),
                           status |-> title(refund.status),
                           payment_intent |-> fields.payment_intent_id,
                           reason |-> fields.reason], raised))
          /\ IF raised THEN exc' = SlackError /\ pc' = "rs_except"
             ELSE exc' = exc /\ pc' = "rs_announce"
    /\ UNCHANGED <<handler, event, charge_id, fields, refund, escaped, announced>>

\* variant: the announcement quotes the reason
Announcement_with_reason(user_id, r, f) ==
    [tmpl |-> "Announcement", amount |-> FormatAmount(r.amount), user |-> user_id,
     reason |-> f.reason]

\* lines 477-486: what the channel is told
Announcement(user_id, r, f) ==
    [tmpl |-> "Announcement", amount |-> FormatAmount(r.amount), user |-> user_id]

\* line 474
HasChannel(body) == body.channel # NoChannel

\* lines 474-487, still inside the try block
handle_refund_submission_announce ==
    /\ pc = "rs_announce"
    /\ IF HasChannel(event) THEN
          \E raised \in BOOLEAN :
             /\ log' = Append(log, PostCall(event.channel,
                                      Announcement(event.user, refund, fields), raised))
             /\ IF raised
                THEN exc' = SlackError /\ pc' = "rs_except" /\ escaped' = escaped
                ELSE exc' = exc /\ Return
       ELSE
          /\ Return
          /\ UNCHANGED <<log, exc>>
    /\ UNCHANGED <<handler, event, charge_id, fields, refund, announced>>

\* the chat_postMessage of an except clause of handle_refund_submission; an
\* exception it raises is raised outside the try block
RefundSubmissionErrorPost(body) ==
    /\ pc = "rs_except"
    /\ \E raised \in BOOLEAN :
          /\ log' = Append(log, PostCall(event.user, body, raised))
          /\ IF raised THEN Escape ELSE Return
    /\ UNCHANGED <<handler, event, charge_id, fields, refund, exc, announced>>

\* lines 489-495
handle_refund_submission_except_StripeError ==
    /\ exc.cls \in StripeErrorClasses
    /\ RefundSubmissionErrorPost([tmpl |-> "RefundFailed", detail |-> exc.msg])

\* lines 496-502
handle_refund_submission_except_Exception ==
    /\ exc.cls = "Exception"
    /\ RefundSubmissionErrorPost([tmpl |-> "InternalError", detail |-> exc.msg])

----------------------------------------------------------------------------

Next ==
    \/ listener_done
    \/ message_hello
    \/ support_command_ack
    \/ support_command_respond
    \/ refund_command_ack
    \/ refund_command_validate
    \/ refund_command_retrieve
    \/ refund_command_create
    \/ refund_command_receipt
    \/ refund_command_except_InvalidRequestError
    \/ refund_command_except_StripeError
    \/ refund_command_except_Exception
    \/ handle_ask_question_ack
    \/ handle_ask_question_open
    \/ handle_question_submission_ack
    \/ handle_question_submission_post
    \/ handle_refund_request_ack
    \/ handle_refund_request_open
    \/ handle_refund_submission_ack
    \/ handle_refund_submission_read
    \/ handle_refund_submission_create
    \/ handle_refund_submission_receipt
    \/ handle_refund_submission_announce
    \/ handle_refund_submission_except_StripeError
    \/ handle_refund_submission_except_Exception

Spec == Init /\ [][Next]_vars


----------------------------------------------------------------------------
(* Vocabulary of the properties *)

RefundHandlers == {"refund_command", "handle_refund_submission"}
AckingHandlers ==
    RefundHandlers \cup {"support_command", "handle_ask_question",
                         "handle_question_submission", "handle_refund_request"}

Indices == 1..Len(log)

IsStripeCall(c) == c.op = "stripe"
IsRefundCreate(c) == c.op = "stripe" /\ c.api = "Refund.create"
IsMessage(c) == c.op \in {"respond", "chat_postMessage", "say"}
IsModalOpen(c) == c.op = "views_open"

InvalidInputTemplates == {"ProvideChargeId", "InvalidChargeIdFormat"}
FailureTemplates ==
    InvalidInputTemplates \cup {"NotFound", "AlreadyRefunded", "InvalidRequest",
                                "StripeError", "RefundFailed", "InternalError"}
IsFailureMessage(c) == IsMessage(c) /\ c.body.tmpl \in FailureTemplates
IsPlaceholder(c) == c.op = "respond" /\ c.body.tmpl = "Processing"
\* a final message of /refund: the receipt or an error raised by the attempt
IsFinalMessage(c) ==
    c.op = "respond" /\ c.body.tmpl \notin InvalidInputTemplates \cup {"Processing"}

\* the text between the first and the last character that is no whitespace
Trimmed(t) ==
    LET solid == {i \in 1..Len(t) : t[i] # " "}
    IN IF solid = {} THEN <<>>
       ELSE SubSeq(t, CHOOSE i \in solid : \A j \in solid : i <= j,
                      CHOOSE i \in solid : \A j \in solid : i >= j)

HasChPrefix(t) == Len(t) >= 3 /\ t[1] = "c" /\ t[2] = "h" /\ t[3] = "_"
\* ^ch_.+
MatchesChargePattern(t) == HasChPrefix(t) /\ Len(t) >= 4

\* refund_command has decided on the command's text
Validated == handler = "refund_command" /\ pc \notin {"idle", "rc_validate"}

\* all the handler did besides ack is one requester-only invalid-input message
OnlyInvalidInputReply ==
    /\ Len(log) = 2
    /\ log[2].op = "respond"
    /\ log[2].response_type = "ephemeral"
    /\ log[2].body.tmpl \in InvalidInputTemplates

(* C1, as stated: a /refund command whose trimmed text does not match ^ch_.+
   gets a requester-only invalid-input message; no processor call is attempted
   and no "Processing refund..." message is posted. *)
C1_RejectsAllNotMatchingPattern ==
    (Validated /\ ~ MatchesChargePattern(Trimmed(event.text))) => OnlyInvalidInputReply

(* C1, amended: a /refund command whose trimmed text is empty or does not
   start with "ch_" gets exactly one requester-only invalid-input message; no
   processor call is attempted and no "Processing refund..." message is
   posted.  (Text that is exactly "ch_" passes the validation.) *)
C1_RejectsMissingPrefix ==
    (Validated /\ ~ HasChPrefix(Trimmed(event.text))) => OnlyInvalidInputReply

C1_Witness ==
    /\ pc = "done"
    /\ handler = "refund_command"
    /\ event.text = <<" ", "c", "h", " ">>
    /\ log[2].body.tmpl = "InvalidChargeIdFormat"

\* the amount parses to a positive integer
IsPositiveAmount(a) == int(a).ok /\ int(a).val > 0

(* C2: a refund_modal submission whose amount is non-numeric or parses to a
   non-positive integer never invokes the processor's refund-create
   operation, and ends with a failure reported to the requester. *)
C2_BadAmountNeverReachesProcessor ==
    (/\ handler = "handle_refund_submission"
     /\ pc \notin {"idle", "rs_read", "rs_create"}
     /\ ~ escaped
     /\ ~ IsPositiveAmount(fields.amount))
    => /\ \A i \in Indices : ~ IsRefundCreate(log[i])
       /\ pc = "done" => \E i \in Indices : IsFailureMessage(log[i])

(* C3: in the six handlers that acknowledge, the event is acknowledged exactly
   once, and before any processor call, modal open or outbound message. *)
C3_AckOnceAndFirst ==
    (handler \in AckingHandlers) =>
        /\ Cardinality({i \in Indices : log[i].op = "ack"}) = 1
        /\ \A i \in Indices :
              (IsStripeCall(log[i]) \/ IsModalOpen(log[i]) \/ IsMessage(log[i]))
              => \E j \in 1..(i - 1) : log[j].op = "ack"

C3_Witness ==
    /\ pc = "done"
    /\ handler = "handle_refund_submission"
    /\ \E i \in Indices : IsRefundCreate(log[i])
    /\ \E i \in Indices : IsAnnouncement(log[i])

(* C4: for a refund event, refund-create is invoked at most once; when the
   attempt fails at charge retrieve or at refund create, no further processor
   call is made for the event and exactly one failure message is sent. *)
C4_NoRetryOneFailureMessage ==
    (handler \in RefundHandlers) =>
        /\ Cardinality({i \in Indices : IsRefundCreate(log[i])}) <= 1
        /\ \A i \in Indices :
              (IsStripeCall(log[i]) /\ log[i].raised) =>
                 /\ \A j \in (i + 1)..Len(log) : ~ IsStripeCall(log[j])
                 /\ Cardinality({j \in Indices : IsFailureMessage(log[j])})
                       = IF pc = "done" THEN 1 ELSE 0

C4_Witness ==
    /\ pc = "done"
    /\ handler = "refund_command"
    /\ \E i \in Indices : IsRefundCreate(log[i]) /\ log[i].raised
    /\ \E i \in Indices : IsFailureMessage(log[i])

(* C5: every failure message of either refund flow goes to the requester
   only: ephemeral in the /refund flow, to the submitting user's id in the
   refund_modal flow. *)
C5_FailuresRequesterOnly ==
    \A i \in Indices :
        (handler \in RefundHandlers /\ IsFailureMessage(log[i])) =>
            IF handler = "refund_command"
            THEN log[i].op = "respond" /\ log[i].response_type = "ephemeral"
            ELSE log[i].op = "chat_postMessage" /\ log[i].channel = event.user

C5_Witness ==
    /\ pc = "done"
    /\ handler = "handle_refund_submission"
    /\ event.channel \in Channels
    /\ \E i \in Indices : IsFailureMessage(log[i]) /\ log[i].channel = event.user

\* a message the requester has received: sent to the requester, or to the
\* channel the requester typed the command in, by a call that returned
ReachedRequester(c) ==
    /\ IsMessage(c)
    /\ ~ c.raised
    /\ c.op = "chat_postMessage" => c.channel = event.user

(* C6: whatever goes wrong while a refund event is handled (a /refund command
   with a well-formed charge id, or any refund_modal submission), no exception
   leaves the handler and the requester receives a message. *)
C6_NothingEscapes ==
    (/\ pc = "done"
     /\ handler \in RefundHandlers
     /\ handler = "refund_command" => MatchesChargePattern(Trimmed(event.text)))
    => /\ ~ escaped
       /\ \E i \in Indices : ReachedRequester(log[i])


\* the category a failure message tells the requester
Category(body) ==
    CASE body.tmpl = "NotFound" -> "NotFound"
      [] body.tmpl = "AlreadyRefunded" -> "AlreadyRefunded"
      [] body.tmpl = "InvalidRequest" -> "InvalidRequest"
      [] body.tmpl \in {"StripeError", "RefundFailed"} -> "ProcessorError"
      [] body.tmpl = "InternalError" -> "InternalError"
      [] OTHER -> "InvalidInput"

Mentions(e, phrase) == \E i \in DOMAIN e.msg : e.msg[i] = phrase

\* the category the error handling design gives an exception
DesignCategory(e) ==
    IF e.cls = "InvalidRequestError" THEN
        IF Mentions(e, "No such charge") THEN "NotFound"
        ELSE IF Mentions(e, "already been refunded") THEN "AlreadyRefunded"
        ELSE "InvalidRequest"
    ELSE IF e.cls = "StripeError" THEN "ProcessorError"
    ELSE "InternalError"

\* the two categories handle_refund_submission tells apart
CoarseCategory(e) ==
    IF e.cls \in {"InvalidRequestError", "StripeError"} THEN "ProcessorError"
    ELSE "InternalError"

\* the failure message the except clause sent for the caught exception is of
\* category cat; the processor's message is passed through where the category
\* carries one
ReportedAs(cat) ==
    \A i \in Indices :
        IsFailureMessage(log[i]) =>
            /\ Category(log[i].body) = cat
            /\ cat \in {"InvalidRequest", "ProcessorError"} => log[i].body.detail = exc.msg

\* an except clause of a refund handler has run to its end
Reported == pc = "done" /\ handler \in RefundHandlers /\ exc # NoException

(* C7, as stated: in both refund flows a failure is categorised by the
   processor's error: invalid request mentioning "No such charge" -> NotFound;
   else mentioning "already been refunded" -> AlreadyRefunded; any other
   invalid request -> InvalidRequest with the message passed through; any
   other processor error -> ProcessorError with the message passed through;
   any other exception -> InternalError. *)
C7_CategorisedInBothFlows ==
    Reported => ReportedAs(DesignCategory(exc))

(* C7, amended: refund_command categorises a failure as stated, in the order
   stated; handle_refund_submission tells only two categories apart: every
   processor error, invalid requests included, is reported as "Refund failed"
   with the processor's message passed through, and any other exception as
   InternalError. *)
C7_CategorisedPerFlow ==
    Reported =>
        IF handler = "refund_command"
        THEN ReportedAs(DesignCategory(exc))
        ELSE ReportedAs(CoarseCategory(exc))

C7_Witness ==
    /\ Reported
    /\ handler = "refund_command"
    /\ exc = [cls |-> "InvalidRequestError",
              msg |-> <<"already been refunded", "No such charge">>]
    /\ log[Len(log)].body.tmpl = "NotFound"

ValidChargeCommand == Validated /\ HasChPrefix(Trimmed(event.text))

(* C8: for a /refund command whose charge id passes validation, exactly one
   "Processing refund..." message is posted, before the first processor call;
   then exactly one final message (receipt or error) is sent, flagged to
   replace the original; the placeholder is never left as the last message
   and no second final message is posted. *)
C8_PlaceholderThenOneFinal ==
    ValidChargeCommand =>
        /\ Cardinality({i \in Indices : IsPlaceholder(log[i])}) = 1
        /\ \A i \in Indices :
              IsStripeCall(log[i]) => \E j \in 1..(i - 1) : IsPlaceholder(log[j])
        /\ Cardinality({i \in Indices : IsFinalMessage(log[i])}) <= 1
        /\ \A i \in Indices : IsFinalMessage(log[i]) => log[i].replace_original
        /\ pc = "done" => \E i \in Indices : IsFinalMessage(log[i])

(* C9: the channel-wide announcement of handle_refund_submission depends on
   the requester id and the refunded amount only: submissions of the same
   requester refunded the same amount are announced alike, whatever reason and
   payment intent they carry; and an announcement is posted only when the
   submission has a channel. *)
C9_AnnouncementDependsOnUserAndAmount ==
    \A i \in Indices :
        IsAnnouncement(log[i]) =>
            /\ handler = "handle_refund_submission"
            /\ event.channel # NoChannel
            /\ log[i].channel = event.channel
            /\ \A a \in announced :
                  (a.user = event.user /\ a.amount = refund.amount)
                  => a.body = log[i].body

C9_Witness ==
    /\ \E i \in Indices : IsAnnouncement(log[i])
    /\ \E a \in announced :
          /\ a.user = event.user
          /\ a.amount = refund.amount
          /\ a.reason # fields.reason
          /\ a.payment_intent # fields.payment_intent_id

(* C10: in both refund flows a failure message is sent only if the processor
   created no refund for the event: once refund-create has returned, no later
   step makes the handler send an error message. *)
C10_NoFailureAfterRefundCreated ==
    \A i \in Indices :
        (handler \in RefundHandlers /\ IsFailureMessage(log[i])) =>
            ~ \E j \in 1..(i - 1) : IsRefundCreate(log[j]) /\ ~ log[j].raised


====
